---- MODULE Spec2Model ----
(***************************************************************************)
(* Teammate recommendation engine of HackNet (app/model/cos_sim.py):       *)
(* bucketing by primary role, vectorization, column alignment, weighted    *)
(* cosine similarity and reconstruction of the ranked profiles.            *)
(*                                                                         *)
(* Values.  Python str values are TLA+ strings, None is the string None,   *)
(* UUIDs are opaque strings that str.lower leaves alone, Python lists are  *)
(* sequences.  A numeric cell of a DataFrame is a record                   *)
(* [nan, num, shift] standing for the float num / 2^shift (the weights     *)
(* 1.0, 1.5 and 2.0 keep every cell dyadic), or for NaN when nan is TRUE.  *)
(* Cosine similarities are compared as exact rationals.                    *)
(***************************************************************************)
EXTENDS Integers, Sequences, FiniteSets, TLC

VARIABLES
    info,                      \* the requester's profile (argument info)
    allUsers,                  \* the candidate profiles (argument allUsers)
    pc,                        \* position inside get_recommendations
    buckets,                   \* data_science, backend, frontend, business (raw)
    vec_dict,                  \* role -> aligned vector table, or None
    reference_columns,         \* columns of the last non-None table, or Unbound
    userVector,                \* the requester's aligned row (mutated in place)
    userGoal,                  \* the requester's goal, lower-cased
    key,                       \* index of the next role compare_cos_sim handles
    sorted_similarity_tables,  \* role -> rows sorted by similarity, or None
    output,                    \* the four returned lists
    exc,                       \* the exception raised, or NoExc
    called,                    \* names of the helper functions run so far
    user_info,                 \* rows of table user_info, in query order
    matches,                   \* rows <<user1Id, user2Id>> of table matches
    confirmed_matches,         \* rows <<user1Id, user2Id>> of confirmed_matches
    sessions,                  \* create_match requests in flight, one per session
    response                   \* the response to the request that finished last

app == <<user_info, matches, confirmed_matches, sessions, response>>

vars == <<info, allUsers, pc, buckets, vec_dict, reference_columns, userVector,
          userGoal, key, sorted_similarity_tables, output, exc, called, app>>

----------------------------------------------------------------------------
(* Bounds *)

MaxUsers == 3

\* Requests of create_match the server handles at the same time.
MaxSessions == 2

----------------------------------------------------------------------------
(* Plain values *)

None == "None"
NoExc == "NoExc"
Unbound == <<"<unbound>">>

\* A list-valued field that holds None (schemas.py 50-51: Optional, default
\* None).  It is a sequence so that it compares with the lists it stands among.
NoneList == <<None>>

\* The four role keys in the order of vec_dict (cos_sim.py 284-289).
RoleKeys == <<"data science", "back-end", "front-end", "business">>

\* str.lower() on the strings of the model's vocabulary.
Lower(s) ==
    CASE s = "Back-End" -> "back-end"
      [] s = "Win Hackathon" -> "win hackathon"
      [] s = "Python" -> "python"
      [] s = "MIT" -> "mit"
      [] s = "Ann" -> "ann"
      [] OTHER -> s

\* to_lowercase on a str cell and on a list cell.
to_lowercase(x) == IF x = None THEN x ELSE Lower(x)
to_lowercase_list(x) == [i \in 1..Len(x) |-> to_lowercase(x[i])]

\* DataFrame.applymap(to_lowercase) on one profile row.
LowerProfile(p) ==
    [id |-> p.id, userId |-> p.userId,
     name |-> to_lowercase(p.name),
     experienceLevel |-> to_lowercase(p.experienceLevel),
     role1 |-> to_lowercase(p.role1),
     role2 |-> to_lowercase(p.role2),
     primaryLanguages |-> to_lowercase_list(p.primaryLanguages),
     secondaryLanguages |-> to_lowercase_list(p.secondaryLanguages),
     school |-> to_lowercase(p.school),
     goal |-> to_lowercase(p.goal),
     note |-> to_lowercase(p.note),
     trait |-> to_lowercase(p.trait),
     discordLink |-> to_lowercase(p.discordLink),
     imageLink |-> to_lowercase(p.imageLink)]

----------------------------------------------------------------------------
(* Numeric cells *)

Float(n) == [nan |-> FALSE, num |-> n, shift |-> 0]
NaN == [nan |-> TRUE, num |-> 0, shift |-> 0]

RECURSIVE Pow2(_)
Pow2(k) == IF k = 0 THEN 1 ELSE 2 * Pow2(k - 1)

\* x * w for a weight given in halves (w2 = 2 * w).
MulWeight(x, w2) ==
    IF x.nan THEN NaN ELSE [nan |-> FALSE, num |-> x.num * w2, shift |-> x.shift + 1]

\* Equality of two cells as numbers.
SameNumber(x, y) ==
    /\ x.nan = y.nan
    /\ ~x.nan => x.num * Pow2(y.shift) = y.num * Pow2(x.shift)

----------------------------------------------------------------------------
(* Frames.  A raw frame is [columns, rows] with rows a sequence of profile  *)
(* records; a vector table is [isNone, columns, rows] with rows a sequence  *)
(* of functions from the column names to cells.                            *)

ProfileKeys ==
    <<"id", "userId", "name", "experienceLevel", "role1", "role2",
      "primaryLanguages", "secondaryLanguages", "school", "goal", "note",
      "trait", "discordLink", "imageLink">>

Range(s) == {s[i] : i \in 1..Len(s)}

\* The value of field c of a profile record.
Field(p, c) ==
    CASE c = "id" -> p.id
      [] c = "userId" -> p.userId
      [] c = "name" -> p.name
      [] c = "experienceLevel" -> p.experienceLevel
      [] c = "role1" -> p.role1
      [] c = "role2" -> p.role2
      [] c = "school" -> p.school
      [] c = "goal" -> p.goal
      [] c = "note" -> p.note
      [] c = "trait" -> p.trait
      [] c = "discordLink" -> p.discordLink
      [] c = "imageLink" -> p.imageLink

\* Every column name the vocabulary can produce, in the order of Python's
\* sorted() on str (code points).
ColumnOrder ==
    <<"discordLink", "experienceLevel", "goal_gain experience",
      "goal_win hackathon", "id", "imageLink", "name", "note", "primary_go",
      "primary_python", "primary_sql", "role1", "role2_back-end",
      "role2_business", "role2_data science", "role2_front-end", "school",
      "secondary_go", "secondary_python", "secondary_sql", "trait_leader",
      "userId">>

\* sorted(S) for a set S of column names.
SortedColumns(S) == LET In(c) == c \in S IN SelectSeq(ColumnOrder, In)

\* DataFrame.drop(columns=cols, errors='ignore') on a column sequence.
DropColumns(columns, cols) == LET Keep(c) == c \notin cols IN SelectSeq(columns, Keep)

NoneTable == [isNone |-> TRUE, columns |-> <<>>, rows |-> <<>>]

\* experience_map and Series.map: a level outside the map becomes NaN.
experience_map(level) ==
    CASE level = "beginner" -> Float(1)
      [] level = "intermediate" -> Float(2)
      [] level = "expert" -> Float(3)
      [] OTHER -> NaN

\* Name of a one-hot or multi-hot column.
Col(prefix, v) == prefix \o "_" \o v

\* pd.get_dummies on one categorical column: one column per observed
\* non-null value, none for None.
DummyColumns(rows, c) ==
    SortedColumns({Col(c, Field(rows[i], c)) :
                     i \in {j \in 1..Len(rows) : Field(rows[j], c) # None}})

\* MultiLabelBinarizer classes of a list column, prefixed.
LabelColumns(lists, prefix) ==
    SortedColumns(UNION {{Col(prefix, t) : t \in Range(lists[i])} : i \in 1..Len(lists)})

Bit(b) == IF b THEN Float(1) ELSE Float(0)

\* vectorize (cos_sim.py 17-67) on a raw frame.
vectorize(frame) ==
    IF Len(frame.rows) = 0 THEN NoneTable
    ELSE
      LET rows == frame.rows
          base == DropColumns(frame.columns,
                     {"role2", "goal", "trait", "primaryLanguages", "secondaryLanguages"})
          d2 == DummyColumns(rows, "role2")
          dg == DummyColumns(rows, "goal")
          dt == DummyColumns(rows, "trait")
          prim == [i \in 1..Len(rows) |-> rows[i].primaryLanguages]
          sec == [i \in 1..Len(rows) |-> rows[i].secondaryLanguages]
          lp == LabelColumns(prim, "primary")
          ls == LabelColumns(sec, "secondary")
          columns == base \o d2 \o dg \o dt \o lp \o ls
          Cell(p, c) ==
              IF c = "experienceLevel" THEN experience_map(p.experienceLevel)
              ELSE IF c \in Range(base) THEN Field(p, c)
              ELSE IF c \in Range(d2) THEN Bit(p.role2 # None /\ c = Col("role2", p.role2))
              ELSE IF c \in Range(dg) THEN Bit(p.goal # None /\ c = Col("goal", p.goal))
              ELSE IF c \in Range(dt) THEN Bit(p.trait # None /\ c = Col("trait", p.trait))
              ELSE IF c \in Range(lp)
                   THEN Bit(c \in {Col("primary", t) : t \in Range(p.primaryLanguages)})
              ELSE Bit(c \in {Col("secondary", t) : t \in Range(p.secondaryLanguages)})
      IN [isNone |-> FALSE,
          columns |-> columns,
          rows |-> [i \in 1..Len(rows) |-> [c \in Range(columns) |-> Cell(rows[i], c)]]]

\* align_columns (cos_sim.py 70-110) on a sequence of tables.
\* The alignment that skips the None entries instead of keeping them.
align_columns_drop_none(tables) ==
    LET all_columns ==
            UNION {Range(tables[i].columns) :
                     i \in {j \in 1..Len(tables) : ~tables[j].isNone}}
        Aligned(t) ==
            [isNone |-> FALSE,
             columns |-> SortedColumns(all_columns),
             rows |-> [r \in 1..Len(t.rows) |->
                         [c \in all_columns |->
                            IF c \in Range(t.columns) THEN t.rows[r][c] ELSE Float(0)]]]
        Live(t) == ~t.isNone
        live == SelectSeq(tables, Live)
    IN [i \in 1..Len(live) |-> Aligned(live[i])]

\* The alignment that fills a missing column with 1.
align_columns_ones(tables) ==
    LET all_columns ==
            UNION {Range(tables[i].columns) :
                     i \in {j \in 1..Len(tables) : ~tables[j].isNone}}
        Aligned(t) ==
            [isNone |-> FALSE,
             columns |-> SortedColumns(all_columns),
             rows |-> [r \in 1..Len(t.rows) |->
                         [c \in all_columns |->
                            IF c \in Range(t.columns) THEN t.rows[r][c] ELSE Float(1)]]]
    IN [i \in 1..Len(tables) |->
          IF tables[i].isNone THEN NoneTable ELSE Aligned(tables[i])]

align_columns(tables) ==
    LET all_columns ==
            UNION {Range(tables[i].columns) :
                     i \in {j \in 1..Len(tables) : ~tables[j].isNone}}
        Aligned(t) ==
            [isNone |-> FALSE,
             columns |-> SortedColumns(all_columns),
             rows |-> [r \in 1..Len(t.rows) |->
                         [c \in all_columns |->
                            IF c \in Range(t.columns) THEN t.rows[r][c] ELSE Float(0)]]]
    IN [i \in 1..Len(tables) |->
          IF tables[i].isNone THEN NoneTable ELSE Aligned(tables[i])]

\* align_single_user (cos_sim.py 113-141) on a one-row table.
\* The alignment on the union of both column sets.
align_single_user_union(user_vector, reference) ==
    [isNone |-> FALSE,
     columns |-> SortedColumns(Range(reference) \cup Range(user_vector.columns)),
     rows |-> <<[c \in Range(reference) \cup Range(user_vector.columns) |->
                   IF c \in Range(user_vector.columns)
                   THEN user_vector.rows[1][c] ELSE Float(0)]>>]

align_single_user(user_vector, reference) ==
    [isNone |-> FALSE,
     columns |-> SortedColumns(Range(reference)),
     rows |-> <<[c \in Range(reference) |->
                   IF c \in Range(user_vector.columns)
                   THEN user_vector.rows[1][c] ELSE Float(0)]>>]

----------------------------------------------------------------------------
(* Cosine similarity (sklearn.metrics.pairwise.cosine_similarity)          *)

id_columns == {"id", "userId", "name", "role1"}

Max(a, b) == IF a >= b THEN a ELSE b

RECURSIVE MaxShift(_, _)
MaxShift(row, cols) ==
    IF cols = <<>> THEN 0 ELSE Max(row[Head(cols)].shift, MaxShift(row, Tail(cols)))

\* The cell as an integer in units of 2^-s.
Scaled(x, s) == x.num * Pow2(s - x.shift)

RECURSIVE Dot(_, _, _, _, _)
Dot(u, su, a, sa, cols) ==
    IF cols = <<>> THEN 0
    ELSE Scaled(u[Head(cols)], su) * Scaled(a[Head(cols)], sa)
         + Dot(u, su, a, sa, Tail(cols))

\* The largest shift of a cell of the rows: their common scale.
RECURSIVE TableShift(_, _)
TableShift(rows, cols) ==
    IF rows = <<>> THEN 0
    ELSE Max(MaxShift(Head(rows), cols), TableShift(Tail(rows), cols))

HasNaN(row, cols) == \E i \in 1..Len(cols) : row[cols[i]].nan

\* The similarity of rows u and a over the feature columns, as the exact
\* fraction p / q of its square (cosines of non-negative vectors are >= 0);
\* a zero vector is left unnormalised by sklearn, which makes the score 0.
\* sa is the common scale of the rows of a's table.
Cosine(u, a, sa, cols) ==
    LET su == MaxShift(u, cols)
        x == Dot(u, su, a, sa, cols)
        nu == Dot(u, su, u, su, cols)
        na == Dot(a, sa, a, sa, cols)
    IN IF nu = 0 \/ na = 0 THEN [p |-> 0, q |-> 1] ELSE [p |-> x * x, q |-> nu * na]

\* p/q < r/s for p, r >= 0 and q, s > 0, by continued fractions (no product
\* of two fractions' terms is formed).
RECURSIVE FracLess(_, _, _, _)
FracLess(p, q, r, s) ==
    LET a == p \div q
        b == r \div s
    IN IF a # b THEN a < b
       ELSE IF r % s = 0 THEN FALSE
       ELSE IF p % q = 0 THEN TRUE
       ELSE FracLess(s, r % s, q, p % q)

ScoreLess(x, y) == FracLess(x.p, x.q, y.p, y.q)
ScoreEq(x, y) == ~ScoreLess(x, y) /\ ~ScoreLess(y, x)

\* A weight table whose largest weight is 3.0.
experience_weight_triple(goal) ==
    IF goal = "win hackathon" THEN 6
    ELSE IF goal = "gain experience" THEN 3
    ELSE 2

\* The experience weight in halves (cos_sim.py 164-169).
WeightDefault == 2
WeightWin == 4
WeightGain == 3
experience_weight(goal) ==
    IF goal = "win hackathon" THEN WeightWin
    ELSE IF goal = "gain experience" THEN WeightGain
    ELSE WeightDefault

IndexOrders(n) == {f \in [1..n -> 1..n] : \A i, j \in 1..n : f[i] = f[j] => i = j}

\* The sort with ascending=False.
SortOrdersDescending(rows) ==
    {f \in IndexOrders(Len(rows)) :
        \A i, j \in 1..Len(rows) :
            i < j => ~ScoreLess(rows[f[i]]["similarity"], rows[f[j]]["similarity"])}

\* DataFrame.sort_values(by='similarity', ascending=True) with the default
\* kind='quicksort', which is not a stable sort: every ascending order of the
\* rows is a possible outcome.
SortOrders(rows) ==
    {f \in IndexOrders(Len(rows)) :
        \A i, j \in 1..Len(rows) :
            i < j => ~ScoreLess(rows[f[j]]["similarity"], rows[f[i]]["similarity"])}

----------------------------------------------------------------------------
(* Inputs: profiles as the caller passes them (UserInfoResponse.model_dump) *)

Template(uid, role1, level, prim) ==
    [id |-> None, userId |-> uid, name |-> "Ann", experienceLevel |-> level,
     role1 |-> role1, role2 |-> None, primaryLanguages |-> prim,
     secondaryLanguages |-> <<>>, school |-> "MIT", goal |-> None,
     note |-> None, trait |-> None, discordLink |-> None, imageLink |-> None]

\* The user_info rows candidates are drawn from.  userId is not unique in
\* user_info (models.py 29; create_user_info and upload_file both insert).
CandidatePool ==
    { Template("u1", "back-end", "expert", <<"Python">>),
      Template("u1", "back-end", "expert", <<>>),
      Template("u2", "back-end", "beginner", <<"python">>),
      Template("u3", "back-end", "beginner", <<"python">>),
      Template("u4", "front-end", "expert", <<"go">>),
      Template("u5", "Back-End", "intermediate", <<"python">>),
      Template("u6", "designer", "expert", <<"python">>),
      Template(None, "back-end", "expert", <<"go">>),
      Template("u7", "back-end", None, <<"python">>),
      [Template("u8", "data science", "intermediate", <<"python", "sql">>)
          EXCEPT !.role2 = "back-end", !.goal = "win hackathon"],
      Template("u9", "business", "beginner", <<>>) }

\* The primary key of the i-th candidate row.
IdOf(i) == <<"i1", "i2", "i3", "i4", "i5", "i6">>[i]

Requesters ==
    { [Template("u0", "back-end", level, <<"python", "go">>)
          EXCEPT !.id = "i0", !.goal = goal, !.secondaryLanguages = <<"sql">>] :
        level \in {"intermediate", None},
        goal \in {"Win Hackathon", "gain experience", None} }

CandidateLists ==
    UNION { { [i \in 1..n |-> [t[i] EXCEPT !.id = IdOf(i)]] : t \in [1..n -> CandidatePool] } :
            n \in 0..MaxUsers }

----------------------------------------------------------------------------
(* get_recommendations (cos_sim.py 229-358)                                *)

\* The state of the tables and of the web layer in a direct call of
\* get_recommendations: no row, no request.
NoResponse == [status |-> 0, detail |-> "", body |-> <<>>]
NoDatabase ==
    /\ user_info = <<>>
    /\ matches = {}
    /\ confirmed_matches = {}
    /\ sessions = <<>>
    /\ response = NoResponse

EmptyTables == [k \in 1..4 |-> NoneTable]
NoOutput == <<>>

Init ==
    /\ info \in Requesters
    /\ allUsers \in CandidateLists
    /\ pc = "start"
    /\ buckets = [k \in 1..4 |-> <<>>]
    /\ vec_dict = EmptyTables
    /\ reference_columns = Unbound
    /\ userVector = NoneTable
    /\ userGoal = None
    /\ key = 1
    /\ sorted_similarity_tables = EmptyTables
    /\ output = NoOutput
    /\ exc = NoExc
    /\ called = {}
    /\ NoDatabase

\* The guard left out: an empty list is bucketed like any other.
EmptyInputNever(users) == FALSE

\* `if not allUsers` (cos_sim.py 230).
EmptyInput(users) == Len(users) = 0

\* The bucket a row is appended to (cos_sim.py 243-250): role1 is compared
\* as given, before any lower-casing; 0 for no bucket.
BucketOf(user) ==
    IF user.role1 = "data science" THEN 1
    ELSE IF user.role1 = "back-end" THEN 2
    ELSE IF user.role1 = "front-end" THEN 3
    ELSE IF user.role1 = "business" THEN 4
    ELSE 0

\* The loop of cos_sim.py 240-250.
Bucketize(users) ==
    [k \in 1..4 |-> LET Mine(u) == BucketOf(u) = k IN SelectSeq(users, Mine)]

\* cos_sim.py 229-250: the guard for an empty candidate list, then bucketing.
Call ==
    /\ pc = "start"
    /\ IF EmptyInput(allUsers)
       THEN /\ output' = <<<<>>, <<>>, <<>>, <<>>>>
            /\ pc' = "done"
            /\ buckets' = buckets
       ELSE /\ buckets' = Bucketize(allUsers)
            /\ pc' = "bucketed"
            /\ output' = output
    /\ UNCHANGED <<info, allUsers, vec_dict, reference_columns, userVector, userGoal,
                   key, sorted_similarity_tables, exc, called, app>>

\* cos_sim.py 253-276: lower-case every bucket, drop the pass-through columns.
VecFrame(rows) ==
    [columns |-> DropColumns(ProfileKeys, {"school", "note", "discordLink", "imageLink"}),
     rows |-> [i \in 1..Len(rows) |-> LowerProfile(rows[i])]]

\* MultiLabelBinarizer.fit_transform (cos_sim.py 40-43) iterates over every
\* cell of the list column: a None cell raises TypeError.
MultiLabelRaises(frame) ==
    \E i \in 1..Len(frame.rows) :
        \/ frame.rows[i].primaryLanguages = NoneList
        \/ frame.rows[i].secondaryLanguages = NoneList

\* cos_sim.py 291-293: the columns of the last table that is not None.
ReferenceColumns(tables) ==
    LET live == {k \in 1..Len(tables) : ~tables[k].isNone}
    IN IF live = {} THEN Unbound
       ELSE tables[CHOOSE k \in live : \A j \in live : j <= k].columns

\* cos_sim.py 253-293.
VectorizeTables ==
    /\ pc = "bucketed"
    /\ IF \E k \in 1..4 : MultiLabelRaises(VecFrame(buckets[k]))
       THEN /\ exc' = "TypeError"
            /\ pc' = "done"
            /\ called' = called \cup {"vectorize"}
            /\ UNCHANGED <<vec_dict, reference_columns>>
       ELSE /\ LET tables ==
                      align_columns([k \in 1..4 |-> vectorize(VecFrame(buckets[k]))])
               IN /\ vec_dict' = tables
                  /\ reference_columns' = ReferenceColumns(tables)
            /\ called' = called \cup {"vectorize", "align_columns"}
            /\ pc' = "vectorized"
            /\ exc' = exc
    /\ UNCHANGED <<info, allUsers, buckets, userVector, userGoal, key,
                   sorted_similarity_tables, output, app>>

\* cos_sim.py 296-304: the requester's frame, vectorized, minus three columns.
UserFrame(profile) == [columns |-> ProfileKeys, rows |-> <<LowerProfile(profile)>>]
UserTable(profile) ==
    LET v == vectorize(UserFrame(profile))
    IN [v EXCEPT !.columns = DropColumns(@, {"school", "note", "discordLink"})]

\* cos_sim.py 296-306: vectorize(user) runs first and raises TypeError on a
\* None list; then reading reference_columns when no bucket had a row raises
\* UnboundLocalError.
MakeUserVector ==
    /\ pc = "vectorized"
    /\ userGoal' = to_lowercase(info.goal)
    /\ IF MultiLabelRaises(UserFrame(info))
       THEN /\ exc' = "TypeError"
            /\ pc' = "done"
            /\ userVector' = userVector
            /\ called' = called \cup {"vectorize"}
       ELSE IF reference_columns = Unbound
       THEN /\ exc' = "UnboundLocalError"
            /\ pc' = "done"
            /\ userVector' = userVector
            /\ called' = called \cup {"vectorize"}
       ELSE /\ userVector' = align_single_user(UserTable(info), reference_columns)
            /\ pc' = "compare"
            /\ exc' = exc
            /\ called' = called \cup {"vectorize", "align_single_user"}
    /\ UNCHANGED <<info, allUsers, buckets, vec_dict, reference_columns, key,
                   sorted_similarity_tables, output, app>>

\* One iteration of the loop of compare_cos_sim (cos_sim.py 175-202) for the
\* role RoleKeys[key].  user_vector is the caller's userVector: the weight is
\* multiplied into it in place at every table that is not None.
Weighted(row, w2) == [row EXCEPT !["experienceLevel"] = MulWeight(@, w2)]

ScoredRows(table, u, w2) ==
    LET feat == DropColumns(table.columns, id_columns)
        rows == [r \in 1..Len(table.rows) |-> Weighted(table.rows[r], w2)]
        sa == TableShift(rows, feat)
    IN [r \in 1..Len(rows) |->
          [c \in Range(table.columns) \cup {"similarity"} |->
             IF c = "similarity" THEN Cosine(u, rows[r], sa, feat) ELSE rows[r][c]]]

Compare ==
    /\ pc = "compare"
    /\ LET table == vec_dict[key]
           w2 == experience_weight(userGoal)
           feat == DropColumns(table.columns, id_columns)
           u == Weighted(userVector.rows[1], w2)
           next == IF key = 4 THEN "reconstruct" ELSE "compare"
       IN IF table.isNone
          THEN /\ sorted_similarity_tables' =
                      [sorted_similarity_tables EXCEPT ![key] = NoneTable]
               /\ key' = key + 1
               /\ pc' = next
               /\ UNCHANGED <<userVector, exc, called>>
          ELSE /\ userVector' = [userVector EXCEPT !.rows = <<u>>]
               /\ called' = called \cup {"compare_cos_sim", "cosine_similarity"}
               /\ IF HasNaN(u, feat)
                     \/ \E r \in 1..Len(table.rows) : HasNaN(table.rows[r], feat)
                  THEN /\ exc' = "ValueError"
                       /\ pc' = "done"
                       /\ UNCHANGED <<key, sorted_similarity_tables>>
                  ELSE /\ \E f \in SortOrders(ScoredRows(table, u, w2)) :
                            sorted_similarity_tables' =
                               [sorted_similarity_tables EXCEPT ![key] =
                                  [isNone |-> FALSE,
                                   columns |-> feat \o <<"similarity", "id", "userId",
                                                         "name", "role1">>,
                                   rows |-> [i \in 1..Len(table.rows) |->
                                               ScoredRows(table, u, w2)[f[i]]]]]
                       /\ key' = key + 1
                       /\ pc' = next
                       /\ exc' = exc
    /\ UNCHANGED <<info, allUsers, buckets, vec_dict, reference_columns, userGoal,
                   output, app>>

\* cos_sim.py 326-332: the rows of the raw bucket whose userId equals the
\* ranked row's userId; a comparison with None matches no row.
MatchingRows(bucket, uid) ==
    LET Same(u) == uid # None /\ u.userId = uid IN SelectSeq(bucket, Same)

\* cos_sim.py 334-351: the record built from the first matching row.
Recommendation(m) ==
    [id |-> m.id, userId |-> m.userId, name |-> m.name,
     experienceLevel |-> m.experienceLevel, role1 |-> m.role1, role2 |-> m.role2,
     primaryLanguages |-> m.primaryLanguages,
     secondaryLanguages |-> m.secondaryLanguages, school |-> m.school,
     goal |-> m.goal, note |-> m.note, trait |-> m.trait,
     discordLink |-> m.discordLink, imageLink |-> m.imageLink]

\* cos_sim.py 315-358: `.values[0]` of an empty selection raises IndexError.
Reconstruct ==
    /\ pc = "reconstruct"
    /\ LET Found(k, i) ==
               MatchingRows(buckets[k], sorted_similarity_tables[k].rows[i]["userId"])
           Missing == \E k \in 1..4 :
                         \E i \in 1..Len(sorted_similarity_tables[k].rows) :
                            Found(k, i) = <<>>
       IN IF Missing
          THEN /\ exc' = "IndexError"
               /\ output' = output
          ELSE /\ output' =
                    [k \in 1..4 |->
                       [i \in 1..Len(sorted_similarity_tables[k].rows) |->
                          Recommendation(Found(k, i)[1])]]
               /\ exc' = exc
    /\ pc' = "done"
    /\ UNCHANGED <<info, allUsers, buckets, vec_dict, reference_columns, userVector,
                   userGoal, key, sorted_similarity_tables, called, app>>

Next == Call \/ VectorizeTables \/ MakeUserVector \/ Compare \/ Reconstruct

Spec == Init /\ [][Next]_vars

----------------------------------------------------------------------------
(* What a finished call returned *)

Returned == pc = "done" /\ exc = NoExc
Raised == pc = "done" /\ exc # NoExc

----------------------------------------------------------------------------
(* Vocabulary of the claims *)

FourEmptyLists == <<<<>>, <<>>, <<>>, <<>>>>

\* Positions of the candidates whose role1, as given, is RoleKeys[k].
OfRole(k) == {i \in 1..Len(allUsers) : allUsers[i].role1 = RoleKeys[k]}

\* Positions of the candidates whose role1 is RoleKeys[k] up to letter case.
OfRoleAnyCase(k) == {i \in 1..Len(allUsers) : Lower(allUsers[i].role1) = RoleKeys[k]}

\* Positions of output[k] holding the candidate with primary key id.
PositionsOf(k, id) == {j \in 1..Len(output[k]) : output[k][j].id = id}

\* The similarity the call computed for the candidate with primary key id.
ScoreOf(k, id) ==
    LET rows == sorted_similarity_tables[k].rows
    IN rows[CHOOSE r \in 1..Len(rows) : rows[r]["id"] = id]["similarity"]

\* The position in allUsers of the candidate with primary key id.
InputPosition(id) == CHOOSE i \in 1..Len(allUsers) : allUsers[i].id = id

DistinctOwners ==
    \A i, j \in 1..Len(allUsers) : allUsers[i].userId = allUsers[j].userId => i = j

Malformed(p) == p.id = None \/ p.userId = None

KnownLevel(p) == Lower(p.experienceLevel) \in {"beginner", "intermediate", "expert"}

\* (C1) counterexample.  Every call returns four lists without raising; when
\* the candidate list is not empty and no candidate has a canonical primary
\* role, the four lists are empty.
C1_AlwaysFourLists ==
    (pc = "done" /\ allUsers # <<>> /\ \A k \in 1..4 : OfRoleAnyCase(k) = {})
        => (exc = NoExc /\ output = FourEmptyLists)

\* (C2) An empty candidate list makes the call return four empty lists, with
\* no exception and without vectorize, align_columns, align_single_user or
\* compare_cos_sim having run, whatever the requester is.
C2_EmptyInputShortCircuits ==
    allUsers = <<>> =>
        /\ pc \in {"start", "done"}
        /\ exc = NoExc
        /\ called = {}
        /\ pc = "done" => output = FourEmptyLists

C2_Witness == allUsers = <<>> /\ pc = "done" /\ output = FourEmptyLists

\* (C3) counterexample.  When a call on a non-empty list returns, every
\* candidate with a canonical role1 is in the list of its role exactly once
\* and in no other list, and each list is as long as its role has candidates.
C3_ExactlyOneBucket ==
    (Returned /\ allUsers # <<>>) =>
        \A k \in 1..4 :
            /\ Len(output[k]) = Cardinality(OfRole(k))
            /\ \A i \in OfRole(k) :
                  /\ Cardinality(PositionsOf(k, allUsers[i].id)) = 1
                  /\ \A m \in (1..4) \ {k} : PositionsOf(m, allUsers[i].id) = {}

\* (C4) counterexample.  When a call returns, a candidate whose role1 is a
\* canonical role up to letter case is in that role's list (stated for
\* candidate lists whose owners are pairwise distinct).
C4_CaseInsensitiveBuckets ==
    (Returned /\ DistinctOwners) =>
        \A k \in 1..4 : \A i \in OfRoleAnyCase(k) : PositionsOf(k, allUsers[i].id) # {}

\* (C5) counterexample.  In every returned list the candidates are in
\* non-decreasing order of the similarity computed for them.
C5_AscendingOutput ==
    Returned =>
        \A k \in 1..4 : \A i, j \in 1..Len(output[k]) :
            i < j => ~ScoreLess(ScoreOf(k, output[k][j].id), ScoreOf(k, output[k][i].id))

\* (C6) counterexample.  Two candidates of one returned list with equal
\* similarity are in the order they have in allUsers (stated for candidate
\* lists whose owners are pairwise distinct).
C6_StableTies ==
    (Returned /\ DistinctOwners) =>
        \A k \in 1..4 : \A i, j \in 1..Len(output[k]) :
            (i < j /\ ScoreEq(ScoreOf(k, output[k][i].id), ScoreOf(k, output[k][j].id)))
                => InputPosition(output[k][i].id) < InputPosition(output[k][j].id)

\* The requester's aligned row before any weight is applied.
UnweightedUser == align_single_user(UserTable(info), reference_columns).rows[1]

\* The row of vec_dict[k] of the candidate with primary key id.
VectorRow(k, id) ==
    LET rows == vec_dict[k].rows
    IN rows[CHOOSE r \in 1..Len(rows) : rows[r]["id"] = id]

\* (C7) counterexample.  For every table compare_cos_sim has scored, each
\* similarity is the cosine of the requester's row and the candidate's row
\* with the goal weight applied exactly once to the experience level of both
\* (stated for candidate lists without a malformed profile).
C7_WeightAppliedOnce ==
    \A k \in 1..4 :
        (~sorted_similarity_tables[k].isNone
            /\ \A i \in 1..Len(allUsers) : ~Malformed(allUsers[i])) =>
            LET w2 == experience_weight(to_lowercase(info.goal))
                feat == DropColumns(vec_dict[k].columns, id_columns)
                rows == sorted_similarity_tables[k].rows
            IN \A r \in 1..Len(rows) :
                  LET cand == Weighted(VectorRow(k, rows[r]["id"]), w2)
                  IN /\ SameNumber(rows[r]["experienceLevel"], cand["experienceLevel"])
                     /\ ScoreEq(rows[r]["similarity"],
                                Cosine(Weighted(UnweightedUser, w2), cand, 1, feat))

\* (C8) counterexample.  When a call returns, position i of a list holds the
\* unchanged input profile of the candidate ranked i-th in that bucket.
C8_ReconstructsRankedProfile ==
    Returned =>
        \A k \in 1..4 :
            /\ Len(output[k]) = Len(sorted_similarity_tables[k].rows)
            /\ \A i \in 1..Len(output[k]) :
                  output[k][i] =
                     allUsers[InputPosition(sorted_similarity_tables[k].rows[i]["id"])]

\* (C9) counterexample.  A call whose candidate list holds a profile without
\* id or userId finishes without an exception and returns, per role, exactly
\* the well-formed candidates of that role (stated for lists whose owners
\* are pairwise distinct and whose experience levels are all known).
C9_MalformedProfileDropped ==
    ( /\ pc = "done"
      /\ \E i \in 1..Len(allUsers) : Malformed(allUsers[i])
      /\ DistinctOwners
      /\ KnownLevel(info)
      /\ \A i \in 1..Len(allUsers) : KnownLevel(allUsers[i]) )
    => /\ exc = NoExc
       /\ \A k \in 1..4 :
             {output[k][j].id : j \in 1..Len(output[k])} =
                {allUsers[i].id : i \in {n \in OfRole(k) : ~Malformed(allUsers[n])}}

\* The ordinal the specification gives an experience level: 0 when the level
\* is absent or unknown.
LevelOrdinal(level) ==
    CASE Lower(level) = "beginner" -> 1
      [] Lower(level) = "intermediate" -> 2
      [] Lower(level) = "expert" -> 3
      [] OTHER -> 0

\* (C10) counterexample.  Every experienceLevel cell of a vectorized table is
\* the ordinal of the candidate's level, 0 for an absent or unknown level,
\* and no call raises ValueError over such a level.
C10_ExperienceSentinel ==
    /\ \A k \in 1..4 : \A r \in 1..Len(vec_dict[k].rows) :
          vec_dict[k].rows[r]["experienceLevel"] =
             Float(LevelOrdinal(buckets[k][r].experienceLevel))
    /\ exc # "ValueError"

----------------------------------------------------------------------------
(* Calls on other inputs.  Every specification below runs the same actions *)
(* from its own set of requesters and candidate lists.                     *)

InitFrom(requesters, lists) ==
    /\ info \in requesters
    /\ allUsers \in lists
    /\ pc = "start"
    /\ buckets = [k \in 1..4 |-> <<>>]
    /\ vec_dict = EmptyTables
    /\ reference_columns = Unbound
    /\ userVector = NoneTable
    /\ userGoal = None
    /\ key = 1
    /\ sorted_similarity_tables = EmptyTables
    /\ output = NoOutput
    /\ exc = NoExc
    /\ called = {}
    /\ NoDatabase

\* The lists of at most MaxUsers rows of a pool, numbered like CandidateLists.
ListsOver(pool) ==
    UNION { { [i \in 1..n |-> [t[i] EXCEPT !.id = IdOf(i)]] : t \in [1..n -> pool] } :
            n \in 0..MaxUsers }

----------------------------------------------------------------------------
(* Profiles whose tag lists are None (schemas.py 50-51)                     *)

NullTagPool ==
    { Template("u1", "back-end", "expert", <<"python">>),
      Template("u2", "back-end", "beginner", NoneList),
      [Template("u3", "back-end", "beginner", <<"go">>)
          EXCEPT !.secondaryLanguages = NoneList],
      Template("u4", "front-end", "expert", <<"go">>) }

NullTagRequesters ==
    { [Template("u0", "back-end", "intermediate", prim)
          EXCEPT !.id = "i0", !.goal = "Win Hackathon"] :
        prim \in {<<"python", "go">>, NoneList} }

InitNullTags == InitFrom(NullTagRequesters, ListsOver(NullTagPool))

SpecNullTags == InitNullTags /\ [][Next]_vars

\* The columns a tag list can produce under a prefix.
TagColumns(prefix) == {Col(prefix, t) : t \in {"go", "python", "sql"}}

\* (C11) counterexample.  A profile whose primary or secondary tag list is
\* None is vectorized like a profile with an empty list: the call does not
\* raise TypeError and the row holds 0 in every column of that list.
C11_NullTagListAsEmpty ==
    /\ exc # "TypeError"
    /\ \A k \in 1..4 :
          ~vec_dict[k].isNone =>
             \A r \in 1..Len(vec_dict[k].rows) :
                /\ buckets[k][r].primaryLanguages = NoneList =>
                      \A c \in TagColumns("primary") \cap Range(vec_dict[k].columns) :
                         vec_dict[k].rows[r][c] = Float(0)
                /\ buckets[k][r].secondaryLanguages = NoneList =>
                      \A c \in TagColumns("secondary") \cap Range(vec_dict[k].columns) :
                         vec_dict[k].rows[r][c] = Float(0)

----------------------------------------------------------------------------
(* The matches router (app/routers/matches.py)                             *)

\* Rows of table users; Targets adds a UUID that is no row of users, which a
\* request body may carry as user2Id (schemas.py 69-70).
Users == {"u0", "u1", "u2"}
Targets == Users \cup {"ux"}

\* The request with the self-match check left out.
NewMatchUnchecked(u, v) ==
    [pc |-> "check_exists", user1Id |-> u, user2Id |-> v, confirmed |-> FALSE,
     status |-> 0, detail |-> ""]

\* A create_match request at its first statement (matches.py 57-58).
NewMatch(u, v) ==
    [pc |-> "check_self", user1Id |-> u, user2Id |-> v, confirmed |-> FALSE,
     status |-> 0, detail |-> ""]

\* raise HTTPException, or an exception the framework turns into status 500.
Raise(s, status, detail) ==
    [s EXCEPT !.pc = "done", !.status = status, !.detail = detail]

\* db.add + db.commit of a row: the composite primary key and the two foreign
\* keys to users.id (models.py 51-52, 60-61) decide whether the commit passes.
Insertable(table, row) == row \notin table /\ row[1] \in Users /\ row[2] \in Users

\* The reverse row never looked up: the request's own row is taken instead.
ReverseRowForward(s) == <<s.user1Id, s.user2Id>>

\* The row of the opposite direction (matches.py 63, 68).
ReverseRow(s) == <<s.user2Id, s.user1Id>>

\* One statement of create_match that reads or writes the database, run by
\* the request s on tables m (matches) and c (confirmed_matches).
MatchStep(m, c, s) ==
    LET u == s.user1Id
        v == s.user2Id
        Out(m2, c2, s2) == [matches |-> m2, confirmed |-> c2, session |-> s2]
    IN CASE s.pc = "check_self" ->
              IF u = v THEN Out(m, c, Raise(s, 400, "Cannot match with yourself"))
              ELSE Out(m, c, [s EXCEPT !.pc = "check_exists"])
         [] s.pc = "check_exists" ->
              IF <<u, v>> \in m THEN Out(m, c, Raise(s, 400, "Match already exists"))
              ELSE Out(m, c, [s EXCEPT !.pc = "check_reverse"])
         [] s.pc = "check_reverse" ->
              IF ReverseRow(s) \in m
              THEN Out(m, c, [s EXCEPT !.pc = "confirm_forward"])
              ELSE Out(m, c, [s EXCEPT !.pc = "insert"])
         [] s.pc = "confirm_forward" ->
              IF Insertable(c, <<u, v>>)
              THEN Out(m, c \cup {<<u, v>>}, [s EXCEPT !.pc = "confirm_backward"])
              ELSE Out(m, c, Raise(s, 500, "IntegrityError"))
         [] s.pc = "confirm_backward" ->
              IF Insertable(c, ReverseRow(s))
              THEN Out(m, c \cup {ReverseRow(s)},
                       [s EXCEPT !.pc = "insert", !.confirmed = TRUE])
              ELSE Out(m, c, Raise(s, 500, "IntegrityError"))
         [] s.pc = "insert" ->
              IF Insertable(m, <<u, v>>)
              THEN Out(m \cup {<<u, v>>}, c, [s EXCEPT !.pc = "done", !.status = 201])
              ELSE Out(m, c, Raise(s, 500, "IntegrityError"))

\* create_match from the statement s is at to its return or raise.
RECURSIVE RunMatch(_, _, _)
RunMatch(m, c, s) ==
    IF s.pc = "done" THEN [matches |-> m, confirmed |-> c, session |-> s]
    ELSE LET r == MatchStep(m, c, s) IN RunMatch(r.matches, r.confirmed, r.session)

\* The response of a finished create_match (matches.py 77-78, 60, 62).
Reply(s) ==
    [status |-> s.status, detail |-> s.detail,
     body |-> IF s.status = 201
              THEN <<s.user1Id, s.user2Id, s.confirmed>>
              ELSE <<>>]

\* create_match (matches.py 55-78) run from its first statement to its
\* response with no other request in between.
CreateMatch ==
    /\ pc = "idle"
    /\ \E u \in Users, v \in Targets :
          LET r == RunMatch(matches, confirmed_matches, NewMatch(u, v))
          IN /\ matches' = r.matches
             /\ confirmed_matches' = r.confirmed
             /\ response' = Reply(r.session)
    /\ UNCHANGED <<info, allUsers, pc, buckets, vec_dict, reference_columns,
                   userVector, userGoal, key, sorted_similarity_tables, output, exc,
                   called, user_info, sessions>>

\* get_possible_matches up to the call of utils.recommendation (matches.py
\* 20-34): all rows of user_info are the candidates, the first row of the
\* current user is the requester; vars(None) raises TypeError when the
\* current user has no row.
GetPossibleMatches ==
    /\ pc = "idle"
    /\ \E u \in Users :
          LET Mine(row) == row.userId = u
              mine == SelectSeq(user_info, Mine)
          IN IF mine = <<>>
             THEN /\ exc' = "TypeError"
                  /\ pc' = "done"
                  /\ UNCHANGED <<info, allUsers>>
             ELSE /\ info' = mine[1]
                  /\ allUsers' = user_info
                  /\ pc' = "start"
                  /\ exc' = exc
    /\ response' = NoResponse
    /\ UNCHANGED <<buckets, vec_dict, reference_columns, userVector, userGoal, key,
                   sorted_similarity_tables, output, called, user_info, matches,
                   confirmed_matches, sessions>>

\* matches.py 37-38: user2Id of the rows of matches whose user1Id is u.
ExistingMatches(u) == {m[2] : m \in {x \in matches : x[1] = u}}

\* The rest of get_possible_matches (matches.py 36-52).  An exception of
\* get_recommendations has already ended the request.  Each comprehension of
\* lines 41-44 reads userInfo.userId of the elements of a ranked list; the
\* elements are the dicts built at cos_sim.py 335-351, and a dict has no
\* attribute userId: the first element raises AttributeError.  Four empty
\* lists reach the return, whose keys are not the fields of
\* schemas.PossibleMatches (schemas.py 62-67).
Respond ==
    /\ pc = "done"
    /\ IF exc # NoExc
       THEN /\ response' = [status |-> 500, detail |-> exc, body |-> <<>>]
            /\ exc' = exc
       ELSE IF \E k \in 1..4 : Len(output[k]) > 0
       THEN /\ response' = [status |-> 500, detail |-> "AttributeError", body |-> <<>>]
            /\ exc' = "AttributeError"
       ELSE /\ response' =
                  [status |-> 500, detail |-> "ResponseValidationError", body |-> <<>>]
            /\ exc' = "ResponseValidationError"
    /\ pc' = "responded"
    /\ UNCHANGED <<info, allUsers, buckets, vec_dict, reference_columns, userVector,
                   userGoal, key, sorted_similarity_tables, output, called, user_info,
                   matches, confirmed_matches, sessions>>

\* The rows of user_info: one profile per user of Users.
AppPool ==
    { [Template("u0", "back-end", "intermediate", <<"python", "go">>)
          EXCEPT !.goal = "win hackathon"],
      Template("u1", "back-end", "expert", <<"python">>),
      Template("u2", "front-end", "beginner", <<"go">>) }

NoProfile == Template(None, None, None, <<>>)

InitApp ==
    /\ info = NoProfile
    /\ allUsers = <<>>
    /\ pc = "idle"
    /\ buckets = [k \in 1..4 |-> <<>>]
    /\ vec_dict = EmptyTables
    /\ reference_columns = Unbound
    /\ userVector = NoneTable
    /\ userGoal = None
    /\ key = 1
    /\ sorted_similarity_tables = EmptyTables
    /\ output = NoOutput
    /\ exc = NoExc
    /\ called = {}
    /\ user_info \in ListsOver(AppPool)
    /\ matches = {}
    /\ confirmed_matches = {}
    /\ sessions = <<>>
    /\ response = NoResponse

NextApp ==
    \/ CreateMatch
    \/ GetPossibleMatches
    \/ Call
    \/ VectorizeTables
    \/ MakeUserVector
    \/ Compare
    \/ Reconstruct
    \/ Respond

SpecApp == InitApp /\ [][NextApp]_vars

\* (C12) counterexample.  When get_recommendations has returned its ranked
\* lists, get_possible_matches answers with those lists minus the candidates
\* whose userId is the user2Id of a matches row of the requester, the others
\* in their ranked order.
C12_MatchedCandidatesFiltered ==
    (pc = "responded" /\ output # NoOutput) =>
       /\ response.status = 200
       /\ \A k \in 1..4 :
             LET Unmatched(p) == p.userId \notin ExistingMatches(info.userId)
             IN response.body[k] = SelectSeq(output[k], Unmatched)

\* (C19) After any sequence of create_match calls that run one at a time,
\* confirmed_matches is symmetric, holds (a, b) exactly when matches holds
\* both (a, b) and (b, a), and neither table holds a row (a, a).
C19_ConfirmedIffMutual ==
    /\ \A a, b \in Targets :
          /\ <<a, b>> \in confirmed_matches <=> <<b, a>> \in confirmed_matches
          /\ <<a, b>> \in confirmed_matches <=>
                (<<a, b>> \in matches /\ <<b, a>> \in matches)
          /\ <<a, a>> \notin matches \cup confirmed_matches
    /\ matches \cup confirmed_matches \subseteq Targets \X Targets

\* A call has just confirmed a pair while another match is still one-way.
C19_Witness ==
    /\ response.status = 201
    /\ response.body[3]
    /\ \E a, b \in Users : a # b /\ <<a, b>> \in confirmed_matches
    /\ \E a, b \in Users : <<a, b>> \in matches /\ <<b, a>> \notin matches

----------------------------------------------------------------------------
(* create_match requests served at the same time.  Each request has its    *)
(* own database session (Depends(get_db)); every query and every commit is *)
(* one step, and a query sees the rows committed so far.                   *)

Idle == [NewMatch(None, None) EXCEPT !.pc = "idle"]

\* The statement of request s that comes next, run on the tables.
Advance(s, request) ==
    LET r == MatchStep(matches, confirmed_matches, request)
    IN /\ matches' = r.matches
       /\ confirmed_matches' = r.confirmed
       /\ sessions' = [sessions EXCEPT ![s] = r.session]
       /\ response' = IF r.session.pc = "done" THEN Reply(r.session) ELSE response
       /\ UNCHANGED <<info, allUsers, pc, buckets, vec_dict, reference_columns,
                      userVector, userGoal, key, sorted_similarity_tables, output,
                      exc, called, user_info>>

\* matches.py 57-60: a request arrives; the self-match check reads no table.
Begin ==
    \E s \in DOMAIN sessions :
        /\ sessions[s].pc = "idle"
        /\ \E u \in Users, v \in Targets : Advance(s, NewMatch(u, v))

\* matches.py 61.
CheckExists ==
    \E s \in DOMAIN sessions :
        sessions[s].pc = "check_exists" /\ Advance(s, sessions[s])

\* matches.py 63.
CheckReverse ==
    \E s \in DOMAIN sessions :
        sessions[s].pc = "check_reverse" /\ Advance(s, sessions[s])

\* matches.py 64-67.
ConfirmForward ==
    \E s \in DOMAIN sessions :
        sessions[s].pc = "confirm_forward" /\ Advance(s, sessions[s])

\* matches.py 68-72.
ConfirmBackward ==
    \E s \in DOMAIN sessions :
        sessions[s].pc = "confirm_backward" /\ Advance(s, sessions[s])

\* matches.py 74-78.
InsertMatch ==
    \E s \in DOMAIN sessions :
        sessions[s].pc = "insert" /\ Advance(s, sessions[s])

InitRace ==
    /\ info = NoProfile
    /\ allUsers = <<>>
    /\ pc = "idle"
    /\ buckets = [k \in 1..4 |-> <<>>]
    /\ vec_dict = EmptyTables
    /\ reference_columns = Unbound
    /\ userVector = NoneTable
    /\ userGoal = None
    /\ key = 1
    /\ sorted_similarity_tables = EmptyTables
    /\ output = NoOutput
    /\ exc = NoExc
    /\ called = {}
    /\ user_info = <<>>
    /\ matches = {}
    /\ confirmed_matches = {}
    /\ sessions = [s \in 1..MaxSessions |-> Idle]
    /\ response = NoResponse

NextRace ==
    \/ Begin
    \/ CheckExists
    \/ CheckReverse
    \/ ConfirmForward
    \/ ConfirmBackward
    \/ InsertMatch

SpecRace == InitRace /\ [][NextRace]_vars

\* Request s has returned status 201 for the match a -> b.
Created(s, a, b) ==
    /\ sessions[s].pc = "done"
    /\ sessions[s].status = 201
    /\ sessions[s].user1Id = a
    /\ sessions[s].user2Id = b

\* (C20) counterexample.  When create_match(a -> b) and create_match(b -> a)
\* run with their reads and commits interleaved and both have completed,
\* confirmed_matches holds (a, b) and (b, a) and at least one of the two
\* responses carries confirmed = true.
C20_ConcurrentMutualConfirmed ==
    \A s, t \in DOMAIN sessions :
       \A a, b \in Users :
          (Created(s, a, b) /\ Created(t, b, a)) =>
             /\ {<<a, b>>, <<b, a>>} \subseteq confirmed_matches
             /\ sessions[s].confirmed \/ sessions[t].confirmed

----------------------------------------------------------------------------
(* The end-to-end scenario: a back-end requester of intermediate level who *)
(* wants to win, an expert with other tags, a beginner with the same tags. *)

ScenarioRequesters ==
    { [Template("u0", "back-end", "intermediate", <<"python", "go">>)
          EXCEPT !.id = "i0", !.goal = goal, !.secondaryLanguages = <<"sql">>] :
        goal \in {"win hackathon", "Win Hackathon"} }

IdenticalTags ==
    [Template("u2", "back-end", "beginner", <<"python", "go">>)
        EXCEPT !.secondaryLanguages = <<"sql">>]

\* The experts whose tags are disjoint from the requester's, list by list.
DisjointTags ==
    { [Template("u1", "back-end", "expert", prim) EXCEPT !.secondaryLanguages = sec] :
        prim \in {<<>>, <<"sql">>},
        sec \in {<<>>, <<"go">>, <<"python">>, <<"go", "python">>} }

ScenarioLists ==
    UNION { { <<[d EXCEPT !.id = IdOf(1)], [IdenticalTags EXCEPT !.id = IdOf(2)]>>,
              <<[IdenticalTags EXCEPT !.id = IdOf(1)], [d EXCEPT !.id = IdOf(2)]>> } :
            d \in DisjointTags }

InitScenario == InitFrom(ScenarioRequesters, ScenarioLists)

SpecScenario == InitScenario /\ [][Next]_vars

\* (C13) In the scenario the call returns, the back-end list holds the expert
\* with disjoint tags first and the beginner with identical tags last, and
\* the beginner's similarity is strictly the higher one.
C13_ScenarioOrder ==
    pc = "done" =>
       /\ exc = NoExc
       /\ Len(output[2]) = 2
       /\ output[2][1].userId = "u1" /\ output[2][1].experienceLevel = "expert"
       /\ output[2][2] \in {[IdenticalTags EXCEPT !.id = i] : i \in {IdOf(1), IdOf(2)}}
       /\ LET rows == sorted_similarity_tables[2].rows
          IN /\ rows[1]["userId"] = "u1"
             /\ rows[2]["userId"] = "u2"
             /\ ScoreLess(rows[1]["similarity"], rows[2]["similarity"])

\* The call has returned for a list that names the beginner first, and the
\* expert has tags of their own.
C13_Witness ==
    /\ Returned
    /\ allUsers[1].userId = "u2"
    /\ allUsers[2].primaryLanguages = <<"sql">>
    /\ Len(output[2]) = 2

----------------------------------------------------------------------------
(* One bucket on its own                                                   *)

\* The scored rows of bucket k when the other three buckets are empty: the
\* table is aligned with itself only, the requester's vector with that table,
\* and compare_cos_sim meets a single table that is not None.
IsolatedRows(k) ==
    LET w2 == experience_weight(to_lowercase(info.goal))
        table == align_columns(<<vectorize(VecFrame(buckets[k]))>>)[1]
        u == Weighted(align_single_user(UserTable(info), table.columns).rows[1], w2)
    IN ScoredRows(table, u, w2)

\* (C14) counterexample.  For every bucket the call has scored, two
\* candidates of the bucket compare by similarity as they do when the other
\* three buckets are empty (stated for candidate lists without a malformed
\* profile).
C14_BucketsIndependent ==
    \A k \in 1..4 :
        (~sorted_similarity_tables[k].isNone
            /\ \A i \in 1..Len(allUsers) : ~Malformed(allUsers[i])) =>
            \A r1, r2 \in 1..Len(buckets[k]) :
                ScoreLess(ScoreOf(k, buckets[k][r1].id), ScoreOf(k, buckets[k][r2].id))
                  <=> ScoreLess(IsolatedRows(k)[r1]["similarity"],
                                IsolatedRows(k)[r2]["similarity"])

----------------------------------------------------------------------------
(* The requester's columns                                                 *)

\* Candidates and requesters whose categorical values and tags differ, so
\* that every table has columns the others lack.
ColumnPool ==
    { Template("u1", "back-end", "expert", <<"python">>),
      [Template("u2", "back-end", "beginner", <<"sql">>)
          EXCEPT !.secondaryLanguages = <<"go">>, !.trait = "leader"],
      [Template("u3", "front-end", "expert", <<"go">>) EXCEPT !.role2 = "back-end"],
      [Template("u4", "data science", "intermediate", <<"python", "sql">>)
          EXCEPT !.goal = "win hackathon"],
      Template("u5", "business", "beginner", <<>>) }

ColumnRequesters ==
    { [Template("u0", "back-end", "intermediate", <<"python", "go">>)
          EXCEPT !.id = "i0", !.goal = goal, !.role2 = role2,
                 !.secondaryLanguages = <<"sql">>] :
        goal \in {"Win Hackathon", "gain experience", None},
        role2 \in {"front-end", None} }

InitColumns == InitFrom(ColumnRequesters, ListsOver(ColumnPool))

SpecColumns == InitColumns /\ [][Next]_vars

\* The feature columns of a vector table: all but the identifiers and the
\* free-text columns.
FeatureColumns(table) ==
    Range(table.columns)
       \ (id_columns \cup {"school", "note", "discordLink", "imageLink"})

\* The columns of the candidate tables.
CandidateColumns ==
    UNION {Range(vec_dict[k].columns) : k \in {j \in 1..4 : ~vec_dict[j].isNone}}

\* (C15) counterexample.  Once the requester's vector is aligned, every
\* feature column of the requester is a column of the vector and of every
\* candidate table, where the candidates hold 0 unless the column is theirs
\* too.
C15_RequesterColumnsKept ==
    ~userVector.isNone =>
        \A c \in FeatureColumns(UserTable(info)) :
            /\ c \in Range(userVector.columns)
            /\ c \in CandidateColumns

\* (C15) amended.  The requester's vector is aligned to the candidate
\* tables' columns only: it has exactly their columns, a feature column that
\* only the requester has is discarded, and a column the requester lacks is
\* added to the requester filled with 0.
C15_RequesterAlignedToCandidates ==
    ~userVector.isNone =>
        /\ Range(userVector.columns) = CandidateColumns
        /\ \A c \in FeatureColumns(UserTable(info)) \ CandidateColumns :
              c \notin Range(userVector.columns)
        /\ \A c \in CandidateColumns \ Range(UserTable(info).columns) :
              userVector.rows[1][c] = Float(0)
        /\ \A c \in (CandidateColumns \cap FeatureColumns(UserTable(info)))
                        \ {"experienceLevel"} :
              userVector.rows[1][c] = UserTable(info).rows[1][c]

\* The aligned requester has lost a column of its own and gained one.
C15_Witness ==
    /\ ~userVector.isNone
    /\ FeatureColumns(UserTable(info)) \ CandidateColumns # {}
    /\ CandidateColumns \ Range(UserTable(info).columns) # {}
    /\ (CandidateColumns \cap FeatureColumns(UserTable(info))) \ {"experienceLevel"} # {}

\* The columns vectorize produces from one profile alone.
OwnColumns(p) == Range(vectorize(UserFrame(p)).columns)

\* The feature columns handed to cosine_similarity (cos_sim.py 180, 189).
Features(table) == DropColumns(table.columns, id_columns)

\* (C16) Whenever compare_cos_sim computes similarities for a bucket, the
\* requester's row and the bucket's rows have the same feature columns in the
\* same sorted order once id, userId, name and role1 are removed, and each
\* profile holds 0 in every column that its own data did not produce.
C16_SameColumnsZeroElsewhere ==
    ~userVector.isNone =>
        \A k \in 1..4 :
            ~vec_dict[k].isNone =>
                /\ Features(userVector) = Features(vec_dict[k])
                /\ Features(vec_dict[k]) = SortedColumns(Range(Features(vec_dict[k])))
                /\ Range(Features(vec_dict[k])) \cap id_columns = {}
                /\ \A c \in Range(Features(userVector)) \ OwnColumns(info) :
                      userVector.rows[1][c] = Float(0)
                /\ \A r \in 1..Len(vec_dict[k].rows) :
                      \A c \in Range(Features(vec_dict[k])) \ OwnColumns(buckets[k][r]) :
                          vec_dict[k].rows[r][c] = Float(0)

\* compare_cos_sim is about to score a bucket in which a candidate has a
\* column of another bucket, and the requester a column of a candidate.
C16_Witness ==
    /\ pc = "compare"
    /\ ~vec_dict[key].isNone
    /\ \E j \in 1..4 : j # key /\ ~vec_dict[j].isNone
    /\ \E r \in 1..Len(vec_dict[key].rows) :
          Range(Features(vec_dict[key])) \ OwnColumns(buckets[key][r]) # {}
    /\ Range(Features(userVector)) \ OwnColumns(info) # {}

----------------------------------------------------------------------------
(* align_columns applied twice                                             *)

\* The four vectorized tables before alignment (cos_sim.py 282).
RawTables == [k \in 1..4 |-> vectorize(VecFrame(buckets[k]))]

\* (C17) align_columns is idempotent on the tables of every call: aligning
\* the aligned tables again changes no column set, column order or cell, and
\* a None entry stays None at its position.
C17_AlignIdempotent ==
    /\ pc = "bucketed" =>
          /\ align_columns(align_columns(RawTables)) = align_columns(RawTables)
          /\ Len(align_columns(RawTables)) = Len(RawTables)
          /\ \A i \in 1..Len(RawTables) : align_columns(RawTables)[i].isNone <=> RawTables[i].isNone
    /\ pc = "vectorized" =>
          /\ align_columns(vec_dict) = vec_dict
          /\ \A i \in 1..4 : vec_dict[i].isNone <=> buckets[i] = <<>>

\* Tables are about to be aligned: one is None and one gains a column.
C17_Witness ==
    /\ pc = "bucketed"
    /\ \E i \in 1..4 : RawTables[i].isNone
    /\ \E j \in 1..4 : ~RawTables[j].isNone /\ align_columns(RawTables)[j] # RawTables[j]

----------------------------------------------------------------------------
(* The three goal weights on candidates of the requester's level           *)

\* Beginners of one bucket with few or many tags, shared with the requester
\* or not, next to a candidate of another bucket.
WeightPool ==
    { Template("u1", "back-end", "beginner", <<"sql">>),
      Template("u2", "back-end", "beginner", <<"python">>),
      [Template("u3", "back-end", "beginner", <<"python", "sql">>)
          EXCEPT !.secondaryLanguages = <<"go", "python">>],
      [Template("u4", "back-end", "beginner", <<"sql">>)
          EXCEPT !.secondaryLanguages = <<"go", "python", "sql">>],
      Template("u5", "data science", "beginner", <<>>) }

WeightRequesters ==
    { [Template("u0", "back-end", "beginner", <<"python">>)
          EXCEPT !.id = "i0", !.goal = goal] :
        goal \in {"Win Hackathon", "gain experience", None} }

InitWeights == InitFrom(WeightRequesters, ListsOver(WeightPool))

SpecWeights == InitWeights /\ [][Next]_vars

\* The weights 1.0, 1.5 and 2.0 in halves.
GoalWeights == {WeightDefault, WeightGain, WeightWin}

\* The row with the weight multiplied into its experience level m times.
RECURSIVE WeightedTimes(_, _, _)
WeightedTimes(row, w2, m) ==
    IF m = 0 THEN row ELSE WeightedTimes(Weighted(row, w2), w2, m - 1)

\* The rows of bucket k as compare_cos_sim scores them when the weight is w2:
\* the requester's level has been multiplied by the weight once for every
\* table up to k that is not None.
ScoresUnder(k, w2) ==
    LET m == Cardinality({j \in 1..k : ~vec_dict[j].isNone})
    IN ScoredRows(vec_dict[k], WeightedTimes(UnweightedUser, w2, m), w2)

\* Candidate r of bucket k has the requester's experience level.
RequesterLevel(k, r) ==
    to_lowercase(buckets[k][r].experienceLevel) = to_lowercase(info.experienceLevel)

\* The number of one-hot and multi-hot columns set in row r of vec_dict[k].
TagCount(k, r) ==
    Cardinality({c \in Range(Features(vec_dict[k])) \ {"experienceLevel"} :
                    vec_dict[k].rows[r][c] # Float(0)})

\* The similarity column of the first n scored rows.
RECURSIVE SimilarityColumn(_, _)
SimilarityColumn(rows, n) ==
    IF n = 0 THEN <<>>
    ELSE Append(SimilarityColumn(rows, n - 1), rows[n]["similarity"])

\* The similarities of bucket k under each of the three weights.
ScoreTable(k) ==
    LET Column(w) == SimilarityColumn(ScoresUnder(k, w), Len(vec_dict[k].rows))
    IN (WeightDefault :> Column(WeightDefault))
         @@ (WeightGain :> Column(WeightGain))
         @@ (WeightWin :> Column(WeightWin))

\* In the score table t, r1 is ranked strictly below r2 under the weight w.
Below(t, w, r1, r2) == ScoreLess(t[w][r1], t[w][r2])

\* (C18) counterexample.  Two candidates of one bucket that both have the
\* requester's experience level compare by similarity in the same way under
\* the weights 1.0, 1.5 and 2.0.
C18_SameLevelSameOrder ==
    ~userVector.isNone =>
        \A k \in 1..4 :
            ~vec_dict[k].isNone =>
                LET t == ScoreTable(k)
                IN \A r1, r2 \in 1..Len(vec_dict[k].rows) :
                      (RequesterLevel(k, r1) /\ RequesterLevel(k, r2)) =>
                          \A w, x \in GoalWeights :
                              Below(t, w, r1, r2) <=> Below(t, x, r1, r2)

\* (C18) amended.  Two candidates of one bucket that both have the
\* requester's experience level and the same number of categorical values
\* and tags compare by similarity in the same way under the weights 1.0, 1.5
\* and 2.0, and the similarities of a scored bucket are those of one of the
\* three weights.
C18_SameLevelSameTagCountSameOrder ==
    ~userVector.isNone =>
        \A k \in 1..4 :
            ~vec_dict[k].isNone =>
                LET t == ScoreTable(k)
                IN /\ \A r1, r2 \in 1..Len(vec_dict[k].rows) :
                         (/\ RequesterLevel(k, r1)
                          /\ RequesterLevel(k, r2)
                          /\ TagCount(k, r1) = TagCount(k, r2)) =>
                             \A w, x \in GoalWeights :
                                 Below(t, w, r1, r2) <=> Below(t, x, r1, r2)
                   /\ ~sorted_similarity_tables[k].isNone =>
                         \E w \in GoalWeights :
                             \A r \in 1..Len(vec_dict[k].rows) :
                                 ScoreOf(k, buckets[k][r].id) = t[w][r]

\* A bucket has been scored in which two candidates of the requester's level
\* and of the same tag count have different similarities.
C18_Witness ==
    /\ ~userVector.isNone
    /\ \E k \in 1..4 :
          /\ ~sorted_similarity_tables[k].isNone
          /\ \E r1, r2 \in 1..Len(vec_dict[k].rows) :
                /\ RequesterLevel(k, r1)
                /\ RequesterLevel(k, r2)
                /\ TagCount(k, r1) = TagCount(k, r2)
                /\ Below(ScoreTable(k), WeightWin, r1, r2)

----------------------------------------------------------------------------
(* Rejected requests                                                       *)

\* The step leaves both tables as they are.
TablesUnchanged == matches' = matches /\ confirmed_matches' = confirmed_matches

\* Request s is answered in this step with status 400 and the given detail.
Rejected(s, detail) ==
    /\ sessions'[s].pc = "done"
    /\ sessions'[s].status = 400
    /\ sessions'[s].detail = detail

\* (C21) A request whose user2Id is the caller's id is rejected on arrival
\* with 400 "Cannot match with yourself"; a request whose pair is in matches
\* when it is looked up is rejected with 400 "Match already exists" (rows
\* are never removed, so a pair present on arrival is still present); a step
\* that rejects, and every step of a self-match request, leaves matches and
\* confirmed_matches unchanged.
C21_RejectsSelfAndDuplicate ==
    [][\A s \in DOMAIN sessions :
          LET before == sessions[s]
              after == sessions'[s]
          IN /\ (before.pc = "idle" /\ after.pc # "idle"
                    /\ after.user1Id = after.user2Id) =>
                   (Rejected(s, "Cannot match with yourself") /\ TablesUnchanged)
             /\ (before.pc = "check_exists"
                    /\ <<before.user1Id, before.user2Id>> \in matches
                    /\ after # before) =>
                   (Rejected(s, "Match already exists") /\ TablesUnchanged)
             /\ (before.pc # "done" /\ after.pc = "done" /\ after.status = 400) =>
                   TablesUnchanged
             /\ matches \subseteq matches'
             /\ \A a \in Targets : <<a, a>> \notin matches' \cup confirmed_matches']_vars

\* One request has created a match and another request for the same pair
\* has been rejected as a duplicate.
C21_Witness ==
    \E s, t \in DOMAIN sessions :
        /\ Created(t, sessions[s].user1Id, sessions[s].user2Id)
        /\ sessions[s].pc = "done"
        /\ sessions[s].status = 400
        /\ sessions[s].detail = "Match already exists"
        /\ matches = {<<sessions[s].user1Id, sessions[s].user2Id>>}
        /\ confirmed_matches = {}

====
